---- MODULE Spec2Model ----
(***************************************************************************)
(* Model of src/gestion_stock.py: GestionnaireStock, the FIFO stock        *)
(* ledger, the bounded alert journal with disk archival, and the volume    *)
(* sort used for packaging.                                                *)
(*                                                                         *)
(* Python strings are modelled as sequences of characters (one-character   *)
(* TLA+ strings), so that concatenation, slicing, substring search and     *)
(* integer formatting/parsing are computed and not assumed.                *)
(***************************************************************************)
EXTENDS Integers, Sequences, FiniteSets, TLC

VARIABLES
    stock,             \* self.stock: key -> sequence of volumes (head = oldest)
    journal_alertes,   \* self.journal_alertes: deque(maxlen=MAX_LOG_SIZE), oldest first
    archive,           \* lines appended to FICHIER_ARCHIVE, in write order
    pc,                \* position in the running call ("idle" between calls)
    appelant,          \* the public operation that is running ("aucun" between calls)
    cle,               \* key handed to _gerer_alerte_seuil
    message,           \* message handed to _enregistrer_dans_log
    commande,          \* liste_cles of the running traiter_commande_colis
    idx,               \* position of the for loop of _recuperer_produits (1-based)
    produits_trouves,  \* produits_trouves of _recuperer_produits
    colis,             \* colis_final, the value traiter_commande_colis returns
    nbOps,             \* number of public operations started (bounds the run)
    stockAvant,        \* history: stock when the running public operation started
    jDebut,            \* history: journal when the running public operation started
    archDebut,         \* history: archive when the running public operation started
    jAvant,            \* history: journal when the last ledger mutation happened
    archAvant,         \* history: archive when the last ledger mutation happened
    dernier,           \* history: what the last completed step did
    recus,             \* history: key -> volumes received, in order
    sortis,            \* history: key -> volumes issued, in order
    ejectes,           \* history: messages dropped from the journal by capacity
    echecEcriture,     \* history: some archive write raised IOError
    arg,               \* input of the pure function under check
    res                \* its result: << >> before it is applied, <<value>> after

machineVars == <<stock, journal_alertes, archive, pc, appelant, cle, message,
                 commande, idx, produits_trouves, colis, nbOps, stockAvant,
                 jDebut, archDebut, jAvant, archAvant, dernier, recus, sortis,
                 ejectes, echecEcriture>>

vars == <<stock, journal_alertes, archive, pc, appelant, cle, message, commande,
          idx, produits_trouves, colis, nbOps, stockAvant, jDebut, archDebut,
          jAvant, archAvant, dernier, recus, sortis, ejectes, echecEcriture, arg, res>>

---------------------------------------------------------------------------
(* Configuration constants of the program *)

SEUIL_ALERTE == 2

MAX_LOG_SIZE == 3

(* Bounds of the model *)

MaxOps == 5

MaxCommande == 2

MaxTypeLen == 2

MaxVolume == 13

MaxListe == 3
MaxSuffixe == 2

---------------------------------------------------------------------------
(* Strings *)

Chiffres == <<"0", "1", "2", "3", "4", "5", "6", "7", "8", "9">>

EstChiffre(c) == \E i \in 1..10 : Chiffres[i] = c

ValeurChiffre(c) == (CHOOSE i \in 1..10 : Chiffres[i] = c) - 1

\* str.upper() on one character of the model's alphabet
UpperChar(c) ==
    CASE c = "a" -> "A"
      [] c = "b" -> "B"
      [] c = "x" -> "X"
      [] c = "y" -> "Y"
      [] OTHER -> c

Upper(s) == [i \in 1..Len(s) |-> UpperChar(s[i])]

\* decimal digits of a natural number
RECURSIVE NatStr(_)
NatStr(n) ==
    IF n < 10 THEN <<Chiffres[n + 1]>>
    ELSE NatStr(n \div 10) \o <<Chiffres[(n % 10) + 1]>>

\* f"{n}" for an int
IntStr(n) == IF n < 0 THEN <<"-">> \o NatStr(-n) ELSE NatStr(n)

\* s[1:]
Slice1(s) == IF Len(s) <= 1 THEN <<>> ELSE SubSeq(s, 2, Len(s))

\* sub in s (Python substring test); the empty string is in every string
Contains(sub, s) ==
    \E i \in 0..(Len(s) - Len(sub)) : SubSeq(s, i + 1, i + Len(sub)) = sub

\* str.strip() of blanks at both ends
RECURSIVE StripLeft(_)
StripLeft(s) ==
    IF s # <<>> /\ Head(s) = " " THEN StripLeft(Tail(s)) ELSE s

RECURSIVE StripRight(_)
StripRight(s) ==
    IF s # <<>> /\ s[Len(s)] = " " THEN StripRight(SubSeq(s, 1, Len(s) - 1)) ELSE s

Strip(s) == StripRight(StripLeft(s))

\* the digits part of an int literal: digits, single underscores between digits
CorpsEntierValide(d) ==
    /\ d # <<>>
    /\ EstChiffre(d[1])
    /\ EstChiffre(d[Len(d)])
    /\ \A i \in 1..Len(d) : EstChiffre(d[i]) \/ d[i] = "_"
    /\ \A i \in 1..(Len(d) - 1) : ~(d[i] = "_" /\ d[i + 1] = "_")

RECURSIVE ValeurCorps(_, _)
ValeurCorps(d, acc) ==
    IF d = <<>> THEN acc
    ELSE IF Head(d) = "_" THEN ValeurCorps(Tail(d), acc)
    ELSE ValeurCorps(Tail(d), 10 * acc + ValeurChiffre(Head(d)))

SansSigne(s) == IF s # <<>> /\ Head(s) \in {"+", "-"} THEN Tail(s) ELSE s

\* int(s) succeeds (does not raise ValueError)
IntValide(s) == CorpsEntierValide(SansSigne(Strip(s)))

\* int(s) when it succeeds
IntValeur(s) ==
    LET t == Strip(s)
        v == ValeurCorps(SansSigne(t), 0)
    IN  IF t # <<>> /\ Head(t) = "-" THEN -v ELSE v

---------------------------------------------------------------------------
(* Niveau 3: helpers *)

\* _generer_cle_unique: f"{type_p.upper()}{vol}"
GenererCleUnique(type_p, vol) == Upper(type_p) \o IntStr(vol)

\* _extraire_volume_cle: int(cle[1:]), 0 on ValueError
ExtraireVolumeCle(c) ==
    IF IntValide(Slice1(c)) THEN IntValeur(Slice1(c)) ELSE 0

\* len(self.stock.get(cle, []))
Quantite(s, c) == IF c \in DOMAIN s THEN Len(s[c]) ELSE 0

\* _est_disponible
EstDisponible(s, c) == c \in DOMAIN s /\ Len(s[c]) > 0

\* f"ALERTE: Stock critique pour {cle} (Qté: {qte_actuelle})"
MessageAlerte(c, q) ==
    <<"A", "L", "E", "R", "T", "E", ":", " ", "S", "t", "o", "c", "k", " ",
      "c", "r", "i", "t", "i", "q", "u", "e", " ", "p", "o", "u", "r", " ">>
    \o c \o <<" ", "(", "Q", "t", "é", ":", " ">> \o IntStr(q) \o <<")">>

\* f"[ARCHIVE] {message}\n"
LigneArchive(m) ==
    <<"[", "A", "R", "C", "H", "I", "V", "E", "]", " ">> \o m \o <<"\n">>

---------------------------------------------------------------------------
(* Inputs of the public operations *)

\* (type_p, volume) pairs handed to traiter_ajout_produit
Arrivages ==
    { <<(<<"a">>), 1>>, <<(<<"a">>), 12>>, <<(<<"A", "1">>), 2>> }

\* keys a client may order
ClesCommande == { GenererCleUnique(p[1], p[2]) : p \in Arrivages }

\* liste_cles handed to traiter_commande_colis
Commandes == UNION { [1..n -> ClesCommande] : n \in 0..MaxCommande }

---------------------------------------------------------------------------
(* Niveau 2: stock *)

\* _ajouter_au_stock: create the deque when the key is new, append on the right
AjouterAuStock(s, c, vol) ==
    LET file == IF c \in DOMAIN s THEN s[c] ELSE <<>>
    IN  [k \in DOMAIN s \cup {c} |-> IF k = c THEN Append(file, vol) ELSE s[k]]

\* mutant of RetirerDuStock: takes the unit on the right (LIFO)
RetirerADroite(s, c) == [s EXCEPT ![c] = SubSeq(@, 1, Len(@) - 1)]

\* mutant of RetirerDuStock: the whole file of the key is emptied
ViderLaFile(s, c) == [s EXCEPT ![c] = << >>]

\* self.stock[cle].popleft()
RetirerDuStock(s, c) == [s EXCEPT ![c] = Tail(@)]

(* Niveau 3: journal *)

\* mutant of DequeAppend: a deque without maxlen
DequeAppendSansMax(j, m) == Append(j, m)

\* mutant of DequeAppend: the entry that falls out is the most recent one
DequeAppendDroite(j, m) ==
    IF Len(j) >= MAX_LOG_SIZE THEN Append(SubSeq(j, 1, MAX_LOG_SIZE - 1), m)
    ELSE Append(j, m)

\* deque(maxlen=MAX_LOG_SIZE).append: the leftmost entry falls out when full
DequeAppend(j, m) ==
    LET a == Append(j, m)
    IN  IF Len(a) > MAX_LOG_SIZE THEN Tail(a) ELSE a

\* deque(liste, maxlen=MAX_LOG_SIZE): keeps the last MAX_LOG_SIZE items
DequeDe(l) ==
    IF Len(l) > MAX_LOG_SIZE THEN SubSeq(l, Len(l) - MAX_LOG_SIZE + 1, Len(l)) ELSE l

\* mutant of NettoyerAlerteResolue: only the first matching entry is removed
RECURSIVE NettoyerPremiereAlerte(_, _)
NettoyerPremiereAlerte(j, c) ==
    IF j = << >> THEN << >>
    ELSE IF Contains(c, Head(j)) THEN Tail(j)
    ELSE <<Head(j)>> \o NettoyerPremiereAlerte(Tail(j), c)

\* _nettoyer_alerte_resolue: [a for a in journal if cle not in a]
NettoyerAlerteResolue(j, c) ==
    DequeDe(SelectSeq(j, LAMBDA a : ~Contains(c, a)))

\* mutant of AlerteEjectee: archives the newest entry
AlerteLaPlusRecente(j) == j[Len(j)]

\* alerte_ejectee = self.journal_alertes[0], the entry handed to _archiver_sur_disque
AlerteEjectee(j) == j[1]

(* Niveau 2: packaging sort *)

Inverser(l) == [i \in 1..Len(l) |-> l[Len(l) + 1 - i]]

\* insert x behind every item whose sort key is <= the key of x
RECURSIVE InsererCroissant(_, _)
InsererCroissant(l, x) ==
    IF l = <<>> THEN <<x>>
    ELSE IF l[Len(l)][1] <= x[1] THEN Append(l, x)
    ELSE Append(InsererCroissant(SubSeq(l, 1, Len(l) - 1), x), l[Len(l)])

\* stable ascending sort on item[0]
RECURSIVE TriStableCroissant(_)
TriStableCroissant(l) ==
    IF l = <<>> THEN <<>>
    ELSE InsererCroissant(TriStableCroissant(SubSeq(l, 1, Len(l) - 1)), l[Len(l)])

\* mutant of TriDecroissant: ascending sort, then reverse (equal keys swap)
TriPuisInverser(l) == Inverser(TriStableCroissant(l))

\* list.sort(key=..., reverse=True): reverse, stable ascending sort, reverse
TriDecroissant(l) == Inverser(TriStableCroissant(Inverser(l)))

\* mutant of TrierProduitsVolume: the products leave in the order they were found
SansTri(produits) == produits

\* _trier_produits_volume
TrierProduitsVolume(produits) ==
    LET temp_list == [i \in 1..Len(produits) |->
                        <<ExtraireVolumeCle(produits[i]), produits[i]>>]
        triee == TriDecroissant(temp_list)
    IN  [i \in 1..Len(triee) |-> triee[i][2]]

---------------------------------------------------------------------------
(* History bookkeeping (not program state) *)

HistAjout(h, c, v) ==
    [k \in DOMAIN h \cup {c} |->
        IF k = c THEN (IF c \in DOMAIN h THEN h[c] ELSE <<>>) \o <<v>> ELSE h[k]]

Hist(h, c) == IF c \in DOMAIN h THEN h[c] ELSE <<>>

SansIndice(l, i) == SubSeq(l, 1, i - 1) \o SubSeq(l, i + 1, Len(l))

\* the unit missing from apres when apres is avant with one unit taken out
\* (the head when it is not)
UniteRetiree(avant, apres) ==
    LET places == {i \in 1..Len(avant) : SansIndice(avant, i) = apres}
    IN  IF places # {} THEN avant[CHOOSE i \in places : TRUE] ELSE Head(avant)

---------------------------------------------------------------------------
(* The controller *)

InitMachine ==
    /\ stock = << >>
    /\ journal_alertes = << >>
    /\ archive = << >>
    /\ pc = "idle"
    /\ appelant = "aucun"
    /\ cle = << >>
    /\ message = << >>
    /\ commande = << >>
    /\ idx = 1
    /\ produits_trouves = << >>
    /\ colis = << >>
    /\ nbOps = 0
    /\ stockAvant = << >>
    /\ jDebut = << >>
    /\ archDebut = << >>
    /\ jAvant = << >>
    /\ archAvant = << >>
    /\ dernier = "init"
    /\ recus = << >>
    /\ sortis = << >>
    /\ ejectes = << >>
    /\ echecEcriture = FALSE

Init ==
    /\ InitMachine
    /\ arg = << >>
    /\ res = << >>

\* the body of traiter_ajout_produit, up to the call of _gerer_alerte_seuil
AjoutProduit(type_p, volume) ==
    LET c == GenererCleUnique(type_p, volume)
    IN  /\ pc = "idle"
        /\ nbOps' = nbOps + 1
        /\ stock' = AjouterAuStock(stock, c, volume)
        /\ cle' = c
        /\ pc' = "alerte"
        /\ appelant' = "ajout"
        /\ stockAvant' = stock
        /\ jDebut' = journal_alertes
        /\ archDebut' = archive
        /\ jAvant' = journal_alertes
        /\ archAvant' = archive
        /\ dernier' = "ajout"
        /\ recus' = HistAjout(recus, c, volume)
        /\ UNCHANGED <<journal_alertes, archive, message, commande, idx,
                       produits_trouves, colis, sortis, ejectes, echecEcriture,
                       arg, res>>

\* a call of traiter_ajout_produit by the client
TraiterAjoutProduit(type_p, volume) ==
    /\ nbOps < MaxOps
    /\ AjoutProduit(type_p, volume)

\* mutant of AuDessusDuSeuil: the threshold itself counts as back to normal
AuDessusOuEgalAuSeuil(q) == q >= SEUIL_ALERTE

\* qte_actuelle > SEUIL_ALERTE
AuDessusDuSeuil(q) == q > SEUIL_ALERTE

\* where control goes when _gerer_alerte_seuil returns
RetourAlerte == IF appelant = "ajout" THEN "retour" ELSE "recuperer"

\* _gerer_alerte_seuil
GererAlerteSeuil ==
    LET qte_actuelle == Quantite(stock, cle)
    IN  /\ pc = "alerte"
        /\ IF AuDessusDuSeuil(qte_actuelle)
           THEN /\ journal_alertes' = NettoyerAlerteResolue(journal_alertes, cle)
                /\ pc' = RetourAlerte
                /\ dernier' = "resolu"
                /\ UNCHANGED message
           ELSE /\ message' = MessageAlerte(cle, qte_actuelle)
                /\ pc' = "log"
                /\ UNCHANGED <<journal_alertes, dernier>>
        /\ UNCHANGED <<stock, archive, appelant, cle, commande, idx,
                       produits_trouves, colis, stockAvant, jDebut, archDebut,
                       jAvant, archAvant, recus, sortis, ejectes, echecEcriture,
                       nbOps, arg, res>>

\* mutant of EcrireSurDisque: the file is opened in mode "w"
EcraserSurDisque(a, m) == <<LigneArchive(m)>>

\* _archiver_sur_disque when the write succeeds: path.open("a"), f.write
EcrireSurDisque(a, m) == Append(a, LigneArchive(m))

\* mutant of EnregistrerDansLog: IOError is not caught, the call is abandoned
EnregistrerDansLogSansExcept ==
    /\ pc = "log"
    /\ IF Len(journal_alertes) = MAX_LOG_SIZE
       THEN \E ecrit \in BOOLEAN :
                /\ archive' = IF ecrit
                              THEN EcrireSurDisque(archive, AlerteEjectee(journal_alertes))
                              ELSE archive
                /\ echecEcriture' = (echecEcriture \/ ~ecrit)
                /\ dernier' = IF ecrit THEN "archive" ELSE "echec"
                /\ pc' = IF ecrit THEN "append" ELSE "retour"
       ELSE /\ pc' = "append"
            /\ UNCHANGED <<archive, echecEcriture, dernier>>
    /\ UNCHANGED <<stock, journal_alertes, appelant, cle, message, commande, idx,
                   produits_trouves, colis, stockAvant, jDebut, archDebut, jAvant,
                   archAvant, recus, sortis, ejectes, nbOps, arg, res>>

\* _enregistrer_dans_log, the capacity test and _archiver_sur_disque:
\* the write either appends the line or raises IOError, which is swallowed
EnregistrerDansLog ==
    /\ pc = "log"
    /\ IF Len(journal_alertes) = MAX_LOG_SIZE
       THEN \E ecrit \in BOOLEAN :
                /\ archive' = IF ecrit
                              THEN EcrireSurDisque(archive, AlerteEjectee(journal_alertes))
                              ELSE archive
                /\ echecEcriture' = (echecEcriture \/ ~ecrit)
                /\ dernier' = IF ecrit THEN "archive" ELSE "echec"
       ELSE UNCHANGED <<archive, echecEcriture, dernier>>
    /\ pc' = "append"
    /\ UNCHANGED <<stock, journal_alertes, appelant, cle, message, commande, idx,
                   produits_trouves, colis, stockAvant, jDebut, archDebut, jAvant,
                   archAvant, recus, sortis, ejectes, nbOps, arg, res>>

\* _enregistrer_dans_log, self.journal_alertes.append(message)
AjouterAuJournal ==
    /\ pc = "append"
    /\ journal_alertes' = DequeAppend(journal_alertes, message)
    /\ ejectes' = IF Len(journal_alertes) = MAX_LOG_SIZE
                  THEN Append(ejectes, Head(journal_alertes))
                  ELSE ejectes
    /\ pc' = RetourAlerte
    /\ dernier' = "enregistre"
    /\ UNCHANGED <<stock, archive, appelant, cle, message, commande, idx,
                   produits_trouves, colis, stockAvant, jDebut, archDebut, jAvant,
                   archAvant, recus, sortis, echecEcriture, nbOps, arg, res>>

\* the body of traiter_commande_colis, entry into _recuperer_produits
CommandeColis(liste_cles) ==
    /\ pc = "idle"
    /\ nbOps' = nbOps + 1
    /\ commande' = liste_cles
    /\ idx' = 1
    /\ produits_trouves' = << >>
    /\ pc' = "recuperer"
    /\ appelant' = "commande"
    /\ stockAvant' = stock
    /\ jDebut' = journal_alertes
    /\ archDebut' = archive
    /\ dernier' = "commande"
    /\ UNCHANGED <<stock, journal_alertes, archive, cle, message, colis, jAvant,
                   archAvant, recus, sortis, ejectes, echecEcriture, arg, res>>

\* a call of traiter_commande_colis by the client
TraiterCommandeColis(liste_cles) ==
    /\ nbOps < MaxOps
    /\ CommandeColis(liste_cles)

\* mutant of MettreEnBackorder: the threshold is checked for the missing key too
MettreEnBackorderAvecAlerte ==
    /\ dernier' = "rupture"
    /\ cle' = commande[idx]
    /\ pc' = "alerte"
    /\ jAvant' = journal_alertes
    /\ archAvant' = archive
    /\ UNCHANGED <<stock, produits_trouves, sortis>>

\* the else branch of _recuperer_produits: only a warning is logged
MettreEnBackorder ==
    /\ dernier' = "rupture"
    /\ UNCHANGED <<stock, produits_trouves, cle, pc, jAvant, archAvant, sortis>>

\* one iteration of the for loop of _recuperer_produits
RecupererProduits ==
    /\ pc = "recuperer"
    /\ idx <= Len(commande)
    /\ idx' = idx + 1
    /\ LET c == commande[idx]
       IN  IF EstDisponible(stock, c)
           THEN /\ stock' = RetirerDuStock(stock, c)
                /\ produits_trouves' = Append(produits_trouves, c)
                /\ cle' = c
                /\ pc' = "alerte"
                /\ jAvant' = journal_alertes
                /\ archAvant' = archive
                /\ sortis' = HistAjout(sortis, c, UniteRetiree(stock[c], stock'[c]))
                /\ dernier' = "retrait"
           ELSE MettreEnBackorder
    /\ UNCHANGED <<journal_alertes, archive, appelant, message, commande, colis,
                   stockAvant, jDebut, archDebut, recus, ejectes, echecEcriture,
                   nbOps, arg, res>>

\* end of the loop: _trier_produits_volume gives colis_final
TrierColis ==
    /\ pc = "recuperer"
    /\ idx > Len(commande)
    /\ colis' = TrierProduitsVolume(produits_trouves)
    /\ pc' = "retour"
    /\ dernier' = "colis"
    /\ UNCHANGED <<stock, journal_alertes, archive, appelant, cle, message,
                   commande, idx, produits_trouves, stockAvant, jDebut, archDebut,
                   jAvant, archAvant, recus, sortis, ejectes, echecEcriture,
                   nbOps, arg, res>>

\* the public operation returns: its locals go out of scope
Retourner ==
    /\ pc = "retour"
    /\ pc' = "idle"
    /\ appelant' = "aucun"
    /\ cle' = << >>
    /\ message' = << >>
    /\ commande' = << >>
    /\ idx' = 1
    /\ produits_trouves' = << >>
    /\ colis' = << >>
    /\ stockAvant' = << >>
    /\ jDebut' = << >>
    /\ archDebut' = << >>
    /\ jAvant' = << >>
    /\ archAvant' = << >>
    /\ dernier' = "retour"
    /\ UNCHANGED <<stock, journal_alertes, archive, recus, sortis, ejectes,
                   echecEcriture, nbOps, arg, res>>

Next ==
    \/ \E p \in Arrivages : TraiterAjoutProduit(p[1], p[2])
    \/ \E l \in Commandes : TraiterCommandeColis(l)
    \/ GererAlerteSeuil
    \/ EnregistrerDansLog
    \/ AjouterAuJournal
    \/ RecupererProduits
    \/ TrierColis
    \/ Retourner

Spec == Init /\ [][Next]_vars

---------------------------------------------------------------------------
(* The helpers taken alone: the input is drawn at the start, one step applies
   the function, the controller stays in its initial state *)

\* type tags of one to MaxTypeLen characters
TypesCle == UNION { [1..n -> {"a", "B", "1"}] : n \in 1..MaxTypeLen }

Volumes == 0..MaxVolume

InitCle ==
    /\ InitMachine
    /\ arg \in { <<t, v>> : t \in TypesCle, v \in Volumes }
    /\ res = << >>

\* _generer_cle_unique, then _extraire_volume_cle on the key
AllerRetourCle ==
    /\ res = << >>
    /\ LET c == GenererCleUnique(arg[1], arg[2])
       IN  res' = <<c, ExtraireVolumeCle(c)>>
    /\ UNCHANGED <<machineVars, arg>>

SpecCle == InitCle /\ [][AllerRetourCle]_vars

\* keys handed to _trier_produits_volume
ClesTri ==
    { <<"A", "1">>, <<"C", "2">>, <<"B", "3">>, <<"X", "2">>, <<"Y", "2">>, <<"A">> }

InitTri ==
    /\ InitMachine
    /\ arg \in UNION { [1..n -> ClesTri] : n \in 0..MaxListe }
    /\ res = << >>

\* _trier_produits_volume on the list
AppliquerTri ==
    /\ res = << >>
    /\ res' = <<TrierProduitsVolume(arg)>>
    /\ UNCHANGED <<machineVars, arg>>

SpecTri == InitTri /\ [][AppliquerTri]_vars

\* keys whose alerts fill the journal, and keys to resolve
ClesJournal == { <<"A", "1">>, <<"A", "1", "2">>, <<"B", "1">> }

ClesResolues == ClesJournal \cup { <<"1", "2">> }

\* the alerts _gerer_alerte_seuil can record for them
AlertesJournal ==
    { MessageAlerte(k, q) : k \in ClesJournal, q \in 0..SEUIL_ALERTE }

InitNettoyer ==
    /\ InitMachine
    /\ arg \in { <<j, k>> : j \in UNION { [1..n -> AlertesJournal] : n \in 0..MAX_LOG_SIZE },
                           k \in ClesResolues }
    /\ res = << >>

\* _nettoyer_alerte_resolue on the journal and the key
AppliquerNettoyer ==
    /\ res = << >>
    /\ res' = <<NettoyerAlerteResolue(arg[1], arg[2])>>
    /\ UNCHANGED <<machineVars, arg>>

SpecNettoyer == InitNettoyer /\ [][AppliquerNettoyer]_vars

\* two product variants (type_p, vol)
InitUnicite ==
    /\ InitMachine
    /\ arg \in { <<<<t1, v1>>, <<t2, v2>>>> :
                    t1 \in TypesCle, v1 \in Volumes, t2 \in TypesCle, v2 \in Volumes }
    /\ res = << >>

\* _generer_cle_unique on each of the two variants
GenererDeuxCles ==
    /\ res = << >>
    /\ res' = <<GenererCleUnique(arg[1][1], arg[1][2]),
                GenererCleUnique(arg[2][1], arg[2][2])>>
    /\ UNCHANGED <<machineVars, arg>>

SpecUnicite == InitUnicite /\ [][GenererDeuxCles]_vars

---------------------------------------------------------------------------
(* _extraire_volume_cle and _trier_produits_volume on malformed keys:
   arg = <<type tag, suffix>>, the key is the tag followed by the suffix,
   res = <<volume of the key, [key, "Z1"] sorted>> *)

\* suffixes that int() rejects: empty or not a number
SuffixesMalformes ==
    { s \in UNION { [1..n -> {"x", "1", "_"}] : n \in 0..MaxSuffixe } : ~IntValide(s) }

CleTemoin == <<"Z", "1">>

InitMalformee ==
    /\ InitMachine
    /\ arg \in TypesCle \X SuffixesMalformes
    /\ res = << >>

ExtraireEtTrier ==
    /\ res = << >>
    /\ LET c == arg[1] \o arg[2]
       IN  res' = <<ExtraireVolumeCle(c), TrierProduitsVolume(<<c, CleTemoin>>)>>
    /\ UNCHANGED <<machineVars, arg>>

SpecMalformee == InitMalformee /\ [][ExtraireEtTrier]_vars

---------------------------------------------------------------------------
(* Receipts whose type tag is a blank: the key " 2" also occurs in the text
   "(Qté: 2)" of other keys' alerts *)

ArrivagesBlancs == { <<(<<"a">>), 1>>, <<(<<" ">>), 2>> }

NextBlancs ==
    \/ \E p \in ArrivagesBlancs : TraiterAjoutProduit(p[1], p[2])
    \/ GererAlerteSeuil
    \/ EnregistrerDansLog
    \/ AjouterAuJournal
    \/ Retourner

SpecBlancs == Init /\ [][NextBlancs]_vars

---------------------------------------------------------------------------
(* The end-to-end scenario: three receipts of (A, 1) and two of (B, 3) in any
   order, then the order [A1, B3] *)

\* how many times each (type_p, volume) is received
ScenarioArrivages == (<<(<<"A">>), 1>> :> 3) @@ (<<(<<"B">>), 3>> :> 2)

ScenarioCommande == << <<"A", "1">>, <<"B", "3">> >>

ScenarioRecu(p) == Len(Hist(recus, GenererCleUnique(p[1], p[2])))

ToutRecu == \A p \in DOMAIN ScenarioArrivages : ScenarioRecu(p) = ScenarioArrivages[p]

ScenarioAjout(p) ==
    /\ ScenarioRecu(p) < ScenarioArrivages[p]
    /\ AjoutProduit(p[1], p[2])

ScenarioCommander ==
    /\ ToutRecu
    /\ sortis = << >>
    /\ dernier = "retour"
    /\ CommandeColis(ScenarioCommande)

NextScenario ==
    \/ \E p \in DOMAIN ScenarioArrivages : ScenarioAjout(p)
    \/ ScenarioCommander
    \/ GererAlerteSeuil
    \/ EnregistrerDansLog
    \/ AjouterAuJournal
    \/ RecupererProduits
    \/ TrierColis
    \/ Retourner

SpecScenario == Init /\ [][NextScenario]_vars

---------------------------------------------------------------------------
(* The controller under another configuration: MAX_LOG_SIZE and SEUIL_ALERTE
   are module constants that __init__ and the methods read as they are.
   arg = <<capacity, threshold>>, res = the outcome of the constructor *)

Configurations == { <<c, t>> : c \in -1..MAX_LOG_SIZE, t \in -1..SEUIL_ALERTE }

\* deque(maxlen=n).append
DequeAppendMax(j, m, n) ==
    LET a == Append(j, m)
    IN  IF Len(a) > n THEN SubSeq(a, Len(a) - n + 1, Len(a)) ELSE a

\* deque(l, maxlen=n)
DequeDeMax(l, n) == IF Len(l) > n THEN SubSeq(l, Len(l) - n + 1, Len(l)) ELSE l

InitConfig ==
    /\ InitMachine
    /\ arg \in Configurations
    /\ res = << >>

\* GestionnaireStock(): deque(maxlen=n) raises ValueError when n is negative,
\* nothing else is checked
Construire ==
    /\ res = << >>
    /\ res' = IF arg[1] < 0 THEN <<"ValueError">> ELSE <<"ok">>
    /\ UNCHANGED <<machineVars, arg>>

\* traiter_ajout_produit as a whole, on a constructed controller; with a full
\* journal of capacity 0, self.journal_alertes[0] raises IndexError after the
\* stock was changed
AjoutSousConfig(type_p, volume) ==
    LET c == GenererCleUnique(type_p, volume)
        s == AjouterAuStock(stock, c, volume)
        q == Quantite(s, c)
        m == MessageAlerte(c, q)
        plein == Len(journal_alertes) = arg[1]
    IN  /\ res = <<"ok">>
        /\ pc = "idle"
        /\ nbOps < MaxOps
        /\ nbOps' = nbOps + 1
        /\ stock' = s
        /\ recus' = HistAjout(recus, c, volume)
        /\ IF q > arg[2]
           THEN /\ journal_alertes' =
                      DequeDeMax(SelectSeq(journal_alertes, LAMBDA a : ~Contains(c, a)), arg[1])
                /\ dernier' = "resolu"
                /\ UNCHANGED <<archive, echecEcriture, ejectes>>
           ELSE IF plein /\ journal_alertes = << >>
           THEN /\ dernier' = "IndexError"
                /\ UNCHANGED <<journal_alertes, archive, echecEcriture, ejectes>>
           ELSE /\ journal_alertes' = DequeAppendMax(journal_alertes, m, arg[1])
                /\ dernier' = "enregistre"
                /\ IF plein
                   THEN \E ecrit \in BOOLEAN :
                            /\ archive' = IF ecrit
                                          THEN EcrireSurDisque(archive, journal_alertes[1])
                                          ELSE archive
                            /\ echecEcriture' = (echecEcriture \/ ~ecrit)
                            /\ ejectes' = Append(ejectes, journal_alertes[1])
                   ELSE UNCHANGED <<archive, echecEcriture, ejectes>>
        /\ UNCHANGED <<pc, appelant, cle, message, commande, idx, produits_trouves,
                       colis, stockAvant, jDebut, archDebut, jAvant, archAvant,
                       sortis, arg, res>>

NextConfig ==
    \/ Construire
    \/ \E p \in Arrivages : AjoutSousConfig(p[1], p[2])

SpecConfig == InitConfig /\ [][NextConfig]_vars

---------------------------------------------------------------------------
(* Properties *)

Min(a, b) == IF a <= b THEN a ELSE b

\* number of occurrences of x in the sequence l
Occ(x, l) == Cardinality({i \in 1..Len(l) : l[i] = x})

\* a is b with some items left out, order kept
RECURSIVE EstSousSuite(_, _)
EstSousSuite(a, b) ==
    IF a = <<>> THEN TRUE
    ELSE IF b = <<>> THEN FALSE
    ELSE IF Head(a) = Head(b) THEN EstSousSuite(Tail(a), Tail(b))
    ELSE EstSousSuite(a, Tail(b))

Lignes(l) == [i \in 1..Len(l) |-> LigneArchive(l[i])]

\* C1: the alert journal never holds more than MAX_LOG_SIZE entries, in any
\* state: between public calls, inside _enregistrer_dans_log between the
\* archive write and the append, and after every resolution.
C1_JournalBorne == Len(journal_alertes) <= MAX_LOG_SIZE

\* C1 witness: inside _enregistrer_dans_log, the archive line is written, the
\* append is still to come, and the journal is full.
C1_Temoin ==
    /\ pc = "append"
    /\ Len(journal_alertes) = MAX_LOG_SIZE
    /\ Len(archive) = Len(archAvant) + 1

\* C2: FIFO issuance. For every key, the units issued so far followed by the
\* units still in stock are exactly the units received, in reception order:
\* every receive appends at the tail, every issue removes the head, whatever
\* happens to other keys in between.
C2_FIFO ==
    \A k \in DOMAIN recus : Hist(sortis, k) \o stock[k] = recus[k]

\* C2 witness: a key received three units that are not all equal, and all
\* three have been issued.
C2_Temoin ==
    \E k \in DOMAIN recus :
        /\ Len(recus[k]) = 3
        /\ recus[k][1] # recus[k][2]
        /\ Hist(sortis, k) = recus[k]

\* C3: _enregistrer_dans_log. On a full journal the oldest entry (index 0)
\* is the one removed, the other entries keep their order and the message
\* becomes the last entry; below capacity nothing is removed or archived and
\* the message is appended at the tail.
C3_Enregistrer ==
    dernier = "enregistre" =>
        IF Len(jAvant) = MAX_LOG_SIZE
        THEN /\ Len(journal_alertes) = MAX_LOG_SIZE
             /\ \A i \in 1..(MAX_LOG_SIZE - 1) : journal_alertes[i] = jAvant[i + 1]
             /\ journal_alertes[MAX_LOG_SIZE] = message
        ELSE /\ journal_alertes = jAvant \o <<message>>
             /\ archive = archAvant

\* C3 witness: a message has just been recorded in a full journal whose
\* entries were not all the same.
C3_Temoin ==
    /\ dernier = "enregistre"
    /\ Len(jAvant) = MAX_LOG_SIZE
    /\ jAvant[1] # jAvant[2]

C5_Politique ==
    /\ dernier \in {"ajout", "retrait"} => pc \in {"alerte", "log", "append"}
    /\ dernier \in {"resolu", "enregistre"} =>
          LET q == Quantite(stock, cle)
          IN  IF q > SEUIL_ALERTE
              THEN /\ dernier = "resolu"
                   /\ \A i \in 1..Len(journal_alertes) :
                          ~Contains(cle, journal_alertes[i])
                   /\ EstSousSuite(journal_alertes, jAvant)
                   /\ \A i \in 1..Len(jAvant) :
                          ~Contains(cle, jAvant[i]) =>
                              Occ(jAvant[i], journal_alertes) = Occ(jAvant[i], jAvant)
              ELSE /\ dernier = "enregistre"
                   /\ journal_alertes # << >>
                   /\ journal_alertes[Len(journal_alertes)] = MessageAlerte(cle, q)
                   /\ SubSeq(journal_alertes, 1, Len(journal_alertes) - 1)
                        = IF Len(jAvant) = MAX_LOG_SIZE THEN Tail(jAvant) ELSE jAvant

\* C5 witness: an alert was recorded for a key whose quantity is exactly the
\* threshold.
C5_Temoin ==
    /\ dernier = "enregistre"
    /\ Quantite(stock, cle) = SEUIL_ALERTE
    /\ journal_alertes[Len(journal_alertes)] = MessageAlerte(cle, SEUIL_ALERTE)

\* the key the for loop of _recuperer_produits is about to handle is missing
RuptureEnVue ==
    /\ pc = "recuperer"
    /\ idx <= Len(commande)
    /\ Quantite(stock, commande[idx]) = 0

\* C7: backorder. When the key requested next has no unit on hand (unseen key
\* or emptied file), that request changes neither the ledger (its set of keys
\* included), nor the journal, nor the archive, adds nothing to the products
\* found, and starts no alert evaluation; and a key with no unit on hand when
\* the order started is absent from the returned colis.
C7_Rupture ==
    /\ [][RuptureEnVue =>
            /\ stock' = stock
            /\ journal_alertes' = journal_alertes
            /\ archive' = archive
            /\ produits_trouves' = produits_trouves
            /\ pc' = "recuperer"
            /\ idx' = idx + 1]_vars
    /\ [](dernier = "colis" =>
            \A i \in 1..Len(commande) :
                Quantite(stockAvant, commande[i]) = 0 => Occ(commande[i], colis) = 0)

\* C7 witness: a request was put in backorder for a key whose file exists but
\* is empty, after another request of the same order was served.
C7_Temoin ==
    /\ dernier = "rupture"
    /\ commande[idx - 1] \in DOMAIN stock
    /\ produits_trouves # << >>
    /\ journal_alertes # << >>

\* C8: traiter_commande_colis. The keys found are taken in the order of the
\* request; for every key k the returned colis holds k exactly
\* min(times requested, quantity on hand before the call) times, the quantity
\* of k drops by exactly that number, and the file of a key absent from the
\* colis is unchanged.
C8_Commande ==
    dernier = "colis" =>
        /\ EstSousSuite(produits_trouves, commande)
        /\ DOMAIN stock = DOMAIN stockAvant
        /\ \A k \in DOMAIN stock \cup ClesCommande :
              /\ Occ(k, colis) = Min(Occ(k, commande), Quantite(stockAvant, k))
              /\ Occ(k, produits_trouves) = Occ(k, colis)
              /\ Quantite(stock, k) = Quantite(stockAvant, k) - Occ(k, colis)
              /\ (Occ(k, colis) = 0 /\ k \in DOMAIN stock) => stock[k] = stockAvant[k]
        /\ \A i \in 1..Len(colis) : colis[i] \in ClesCommande

\* C8 witness: an order asked twice for a key with one unit on hand, and for
\* another key that was served.
C8_Temoin ==
    /\ dernier = "colis"
    /\ \E k \in ClesCommande :
          /\ Occ(k, commande) = 2
          /\ Quantite(stockAvant, k) = 1
          /\ Occ(k, colis) = 1

\* C6: resolution correctness. After _nettoyer_alerte_resolue(cle) no entry
\* of the journal contains cle, and the entries that do not contain cle are
\* all still there in the same relative order, for every journal content and
\* every key.
C6_Nettoyer ==
    res # << >> =>
        LET sortie == res[1]
            entree == arg[1]
            k == arg[2]
        IN  /\ \A i \in 1..Len(sortie) : ~Contains(k, sortie[i])
            /\ EstSousSuite(sortie, entree)
            /\ \A i \in 1..Len(entree) :
                  ~Contains(k, entree[i]) => Occ(entree[i], sortie) = Occ(entree[i], entree)

\* C6 witness: the first and the last of three entries contained the key and
\* were removed, the middle one stayed.
C6_Temoin ==
    /\ res # << >>
    /\ Len(arg[1]) = 3
    /\ Contains(arg[2], arg[1][1])
    /\ Contains(arg[2], arg[1][3])
    /\ res[1] = <<arg[1][2]>>

VolumesDe(l) == { ExtraireVolumeCle(l[i]) : i \in 1..Len(l) }

AuVolume(l, v) == SelectSeq(l, LAMBDA x : ExtraireVolumeCle(x) = v)

\* C9: _trier_produits_volume returns a permutation of its input in
\* non-increasing order of parsed volume, and keys of equal parsed volume keep
\* the relative order they had in the input.
C9_TriStable ==
    res # << >> =>
        LET sortie == res[1]
        IN  /\ Len(sortie) = Len(arg)
            /\ \A k \in ClesTri : Occ(k, sortie) = Occ(k, arg)
            /\ \A i \in 1..Len(sortie) : \A j \in i..Len(sortie) :
                  ExtraireVolumeCle(sortie[i]) >= ExtraireVolumeCle(sortie[j])
            /\ \A v \in VolumesDe(arg) : AuVolume(sortie, v) = AuVolume(arg, v)

\* C9 witness: two different keys of equal volume come before a key of larger
\* volume in the input, and the list has been sorted.
C9_Temoin ==
    /\ res # << >>
    /\ Len(arg) = 3
    /\ arg[1] # arg[2]
    /\ ExtraireVolumeCle(arg[1]) = ExtraireVolumeCle(arg[2])
    /\ ExtraireVolumeCle(arg[3]) > ExtraireVolumeCle(arg[1])
    /\ res[1] = <<arg[3], arg[1], arg[2]>>

\* C10: key round trip. For every non-empty type tag and every non-negative
\* volume, the volume _extraire_volume_cle parses from the key
\* _generer_cle_unique(type, volume) is that volume.
C10_AllerRetour == res # << >> => res[2] = arg[2]

\* The round trip does hold for the type tags of exactly one character.
AllerRetourUnCaractere == (res # << >> /\ Len(arg[1]) = 1) => res[2] = arg[2]

\* C11: key uniqueness. Two product variants that differ in their uppercased
\* type tag or in their unit volume never get the same key from
\* _generer_cle_unique (so their units never share a file of the stock).
C11_CleUnique ==
    res # << >> =>
        ((Upper(arg[1][1]) # Upper(arg[2][1]) \/ arg[1][2] # arg[2][2])
            => res[1] # res[2])

\* What does hold: variants whose type tags have the same length never share
\* a key.
CleUniqueMemeLongueur ==
    (res # << >> /\ Len(arg[1][1]) = Len(arg[2][1])) =>
        ((Upper(arg[1][1]) # Upper(arg[2][1]) \/ arg[1][2] # arg[2][2])
            => res[1] # res[2])

\* C12: archive write failure. When the archive write fails while a message
\* is recorded in a full journal, execution goes on to the append: the journal
\* ends with its oldest entry dropped and the message last (MAX_LOG_SIZE
\* entries), the ledger mutation that raised the alert is kept, and the public
\* operation continues normally (no error reaches its caller).
C12_EchecEcriture ==
    /\ dernier = "echec" =>
          /\ pc = "append"
          /\ Len(journal_alertes) = MAX_LOG_SIZE
          /\ journal_alertes = jAvant
          /\ archive = archAvant
    /\ (dernier = "enregistre" /\ Len(jAvant) = MAX_LOG_SIZE /\ archive = archAvant) =>
          /\ echecEcriture
          /\ journal_alertes = Tail(jAvant) \o <<message>>
          /\ Len(journal_alertes) = MAX_LOG_SIZE
          /\ pc = (IF appelant = "ajout" THEN "retour" ELSE "recuperer")
          /\ appelant = "ajout" =>
                Quantite(stock, cle) = Quantite(stockAvant, cle) + 1
          /\ appelant = "commande" =>
                Quantite(stock, cle)
                    = Quantite(stockAvant, cle) - Occ(cle, produits_trouves)

\* C12 witness: inside an order, a message was recorded in a full journal
\* although the archive write had failed.
C12_Temoin ==
    /\ dernier = "enregistre"
    /\ appelant = "commande"
    /\ Len(jAvant) = MAX_LOG_SIZE
    /\ archive = archAvant
    /\ journal_alertes # jAvant

\* C13: invalid configuration. With a capacity MAX_LOG_SIZE <= 0 or a
\* threshold SEUIL_ALERTE < 0 the constructor fails, and no public operation
\* ever runs under that configuration.
C13_ConfigRefusee ==
    (arg[1] <= 0 \/ arg[2] < 0) => (res # <<"ok">> /\ nbOps = 0)

\* What does hold: a negative capacity is refused by deque(maxlen=...).
CapaciteNegativeRefusee == arg[1] < 0 => (res # <<"ok">> /\ nbOps = 0)

\* C14: the end-to-end scenario. Once (A, 1) was received three times and
\* (B, 3) twice, A1 has 3 units and B3 has 2, no journal entry mentions A1 and
\* one mentions B3; the order [A1, B3] then leaves A1 with 2 units and B3 with
\* 1, entries mentioning A1 and B3 in the journal, and returns [B3, A1].
Mentionne(c) == \E i \in 1..Len(journal_alertes) : Contains(c, journal_alertes[i])

C14_Scenario ==
    /\ (ToutRecu /\ pc = "idle" /\ sortis = << >>) =>
           /\ Quantite(stock, <<"A", "1">>) = 3
           /\ Quantite(stock, <<"B", "3">>) = 2
           /\ ~Mentionne(<<"A", "1">>)
           /\ Mentionne(<<"B", "3">>)
    /\ (pc = "retour" /\ appelant = "commande") =>
           /\ stock = (<<"A", "1">> :> <<1, 1>>) @@ (<<"B", "3">> :> <<3>>)
           /\ Mentionne(<<"A", "1">>)
           /\ Mentionne(<<"B", "3">>)
           /\ colis = << <<"B", "3">>, <<"A", "1">> >>

C14_Temoin ==
    /\ pc = "retour"
    /\ appelant = "commande"
    /\ commande = ScenarioCommande
    /\ ToutRecu
    /\ colis # << >>

CleMalformeeUnCaractere ==
    (res # << >> /\ Len(arg[1]) = 1) =>
        /\ res[1] = 0
        /\ res[2] = <<CleTemoin, arg[1] \o arg[2]>>

\* the alerts _gerer_alerte_seuil can raise for the key c
AlertesPour(c) == { MessageAlerte(c, q) : q \in 0..SEUIL_ALERTE }

\* C16: resolving the key cle removes only alerts raised for cle itself: the
\* alerts raised for any other key are in the journal as often as before.
C16_SeulementSesAlertes ==
    dernier = "resolu" =>
        \A k \in DOMAIN stock \ {cle} : \A m \in AlertesPour(k) :
            Occ(m, journal_alertes) = Occ(m, jAvant)

\* C17: no stale alert. Whenever no threshold evaluation is pending, a key
\* whose stock holds more than SEUIL_ALERTE units has no alert raised for it in
\* the journal.
C17_PasDAlertePerimee ==
    pc # "alerte" =>
        \A k \in DOMAIN stock :
            Len(stock[k]) > SEUIL_ALERTE =>
                \A m \in AlertesPour(k) : Occ(m, journal_alertes) = 0

\* C17 witness: between two calls, a key went above the threshold, which
\* removed the alerts raised on its way up, and the journal holds the alerts of
\* another key.
C17_Temoin ==
    /\ pc = "idle"
    /\ \E k \in DOMAIN stock : Len(stock[k]) > SEUIL_ALERTE
    /\ journal_alertes # << >>

\* C18: between two calls, when the journal holds alerts raised for a key, the
\* newest of them records the quantity the stock holds for that key now.
C18_AlerteAJour ==
    pc = "idle" =>
        \A k \in DOMAIN stock :
            LET places == {i \in 1..Len(journal_alertes) :
                              journal_alertes[i] \in AlertesPour(k)}
            IN  places # {} =>
                    \E i \in places :
                        /\ \A j \in places : j <= i
                        /\ journal_alertes[i] = MessageAlerte(k, Len(stock[k]))

\* a is the beginning of b
EstPrefixe(a, b) == Len(a) <= Len(b) /\ SubSeq(b, 1, Len(a)) = a

\* C19: the archive only grows by appending, every earlier content being a
\* prefix of every later one; the step that resolves a key writes nothing to
\* the archive and changes neither the archive nor the stock.
C19_ArchiveAjoutSeul ==
    /\ [][EstPrefixe(archive, archive')]_vars
    /\ [][(pc = "alerte" /\ AuDessusDuSeuil(Quantite(stock, cle))) =>
              (archive' = archive /\ stock' = stock)]_vars
    /\ [](EstPrefixe(archDebut, archive) /\ EstPrefixe(archAvant, archive))

\* C19 witness: a resolution removed entries from the journal while the
\* archive already held lines.
C19_Temoin ==
    /\ dernier = "resolu"
    /\ Len(journal_alertes) < Len(jAvant)
    /\ archive # << >>

====
